---- MODULE Spec2Model ----
(***************************************************************************)
(* A model of webapps/candlestick-chart/backend.py: the row-filtering      *)
(* pipeline (filter_dataframe and its predicate evaluators) and the        *)
(* aggregation / rank-collapse / cumulative reshaping of                   *)
(* create_candlestick_df.                                                  *)
(*                                                                         *)
(* Data representation.  A cell of a table is <<>> when it is missing      *)
(* (None / NaN / NaT) and <<v>> when it holds v.  A Python string is the   *)
(* tuple of its characters, so that float() and int() are real parsers.    *)
(* A timestamp is the record [d |-> days since 1970-01-01, r |-> ms within *)
(* the day]; an epoch-millisecond number of a filter is converted to it by *)
(* Timestamp.  A boolean mask is a sequence of BOOLEAN, one per row.       *)
(***************************************************************************)
EXTENDS Integers, Sequences, FiniteSets, TLC

VARIABLES
    table,                \* filter_dataframe: the df argument as passed in
    filters,              \* filter_dataframe: the filters argument
    df,                   \* filter_dataframe: the local df, narrowed filter by filter
    idx,                  \* filter_dataframe: number of filters already iterated over
    pc,                   \* filter_dataframe: "loop", "returned" or "raised"
    exc,                  \* filter_dataframe: the exception raised, NoExc if none
    isinCoerces,          \* the build: does Series.isin coerce string values to the
                          \* dtype of a numeric series (older pandas) or not (newer)
    cdf,                  \* create_candlestick_df: the df argument
    max_displayed_values, \* create_candlestick_df: argument
    group_others,         \* create_candlestick_df: argument
    work,                 \* create_candlestick_df: the local df between the phases
    cpc,                  \* create_candlestick_df: phase of the current run
    run,                  \* which run of create_candlestick_df is in progress
    rerunMode,            \* how the input of the second run was built from the first output
    out1                  \* the rows returned by the first run

vars == <<table, filters, df, idx, pc, exc, isinCoerces,
          cdf, max_displayed_values, group_others, work, cpc, run, rerunMode, out1>>

filterVars == <<table, filters, df, idx, pc, exc, isinCoerces>>
candleVars == <<cdf, max_displayed_values, group_others, work, cpc, run, rerunMode, out1>>

-----------------------------------------------------------------------------
(* Bounds of the model *)

MaxRows == 2          \* rows of the table given to filter_dataframe
MaxFilters == 2       \* length of the filter list
MaxCandleRows == 3    \* rows of the table given to create_candlestick_df
MaxDisplayed == 3     \* largest max_displayed_values

-----------------------------------------------------------------------------
(* Python values *)

None == <<>>

Some(x) == <<x>>

\* bool(x) of an optional number: None and 0 are falsy
Truthy(x) == x # None /\ x[1] # 0

Digits == {"0", "1", "2", "3", "4", "5", "6", "7", "8", "9"}

DigitVal(c) ==
    CASE c = "0" -> 0 [] c = "1" -> 1 [] c = "2" -> 2 [] c = "3" -> 3 [] c = "4" -> 4
      [] c = "5" -> 5 [] c = "6" -> 6 [] c = "7" -> 7 [] c = "8" -> 8 [] c = "9" -> 9

IsDigits(s) == Len(s) > 0 /\ \A k \in 1..Len(s) : s[k] \in Digits

RECURSIVE DecimalValue(_)
DecimalValue(s) ==
    IF s = <<>> THEN 0
    ELSE 10 * DecimalValue(SubSeq(s, 1, Len(s) - 1)) + DigitVal(s[Len(s)])

\* int(k): optional sign, then decimal digits; anything else is a ValueError
int_parses(k) ==
    \/ IsDigits(k)
    \/ Len(k) > 1 /\ k[1] = "-" /\ IsDigits(Tail(k))

int(k) == IF k[1] = "-" THEN 0 - DecimalValue(Tail(k)) ELSE DecimalValue(k)

\* float(k), restricted to the strings whose value is a whole number:
\* an int() literal, optionally followed by ".0"; anything else is a ValueError
float_parses(k) ==
    \/ int_parses(k)
    \/ Len(k) > 2 /\ SubSeq(k, Len(k) - 1, Len(k)) = <<".", "0">>
                  /\ int_parses(SubSeq(k, 1, Len(k) - 2))

float(k) == IF int_parses(k) THEN int(k) ELSE int(SubSeq(k, 1, Len(k) - 2))

-----------------------------------------------------------------------------
(* pandas: timestamps *)

MsPerDay == 86400000
MsPerHour == 3600000

\* pd.Timestamp(ms, unit='ms')
Timestamp(ms) == [d |-> ms \div MsPerDay, r |-> ms % MsPerDay]

TsLe(a, b) == a.d < b.d \/ (a.d = b.d /\ a.r <= b.r)

\* The .dt accessors.  Every instant a 32-bit millisecond count can name lies in
\* January 1970, where these are exact: 1970-01-01 is a Thursday of ISO week 1.
dt_year(t) == 1970
dt_quarter(t) == 1
dt_month(t) == 1
dt_week(t) == (t.d + 3) \div 7 + 1
dt_day(t) == t.d + 1
dt_dayofweek(t) == (t.d + 3) % 7
dt_hour(t) == t.r \div MsPerHour

-----------------------------------------------------------------------------
(* pandas: masks *)

\* series >= v, series <= v on numbers: a missing cell compares False
Ge(cell, v) == cell # None /\ cell[1] >= v
Le(cell, v) == cell # None /\ cell[1] <= v

\* the same on timestamps
TsGe(cell, t) == cell # None /\ TsLe(t, cell[1])
TsLeCell(cell, t) == cell # None /\ TsLe(cell[1], t)

\* Series.isin(values) for one element of the series, both of the same type
isin(x, values) == x \in values

\* Series.isin(strings) for one element n of an integer series: older pandas
\* casts the whole list of strings to int64 and, if any of them does not cast,
\* falls back to comparing objects (nothing matches); newer pandas compares
\* objects at once
isin_strings(n, strings, coerces) ==
    /\ coerces
    /\ \A k \in strings : int_parses(k)
    /\ n \in {int(k) : k \in strings}

MaskAnd(c1, c2) == [k \in 1..Len(c1) |-> c1[k] /\ c2[k]]

\* df[mask]
RECURSIVE BoolIndex(_, _)
BoolIndex(d, mask) ==
    IF d = <<>> THEN <<>>
    ELSE (IF Head(mask) THEN <<Head(d)>> ELSE <<>>) \o BoolIndex(Tail(d), Tail(mask))

-----------------------------------------------------------------------------
(* The predicate evaluators.  Each returns [raised, conditions]: raised is  *)
(* the message of the exception it raises ("" when it returns), conditions *)
(* the list of masks it returns.                                           *)

Returns(conditions) == [raised |-> "", conditions |-> conditions]
Raises(msg) == [raised |-> msg, conditions |-> <<>>]

NoValueKey == <<"_", "_", "_", "d", "k", "u", "_", "n", "o", "_",
                "v", "a", "l", "u", "e", "_", "_", "_">>

numerical_filter(d, filter) ==
    Returns(
        (IF Truthy(filter.minValue)
         THEN << [k \in 1..Len(d) |-> Ge(d[k][filter.column], filter.minValue[1])] >>
         ELSE <<>>)
        \o
        (IF Truthy(filter.maxValue)
         THEN << [k \in 1..Len(d) |-> Le(d[k][filter.column], filter.maxValue[1])] >>
         ELSE <<>>))

\* the keys the loops of alphanum_filter / special_date_filter collect
alphanum_excluded_values(filter) ==
    {k \in DOMAIN filter.excludedValues : k # NoValueKey /\ filter.excludedValues[k]}

\* mutant: the sentinel key counts even when its flag is false
alphanum_filter_anyflag(d, filter) ==
    LET excluded_values == alphanum_excluded_values(filter)
        notnull ==
            IF NoValueKey \in DOMAIN filter.excludedValues
            THEN << [k \in 1..Len(d) |-> d[k][filter.column] # None] >>
            ELSE <<>>
    IN  IF excluded_values = {} THEN Returns(notnull)
        ELSE Returns(notnull \o
               << [k \in 1..Len(d) |->
                     ~(d[k][filter.column] # None
                       /\ isin(d[k][filter.column][1], excluded_values))] >>)

alphanum_filter(d, filter) ==
    LET excluded_values == alphanum_excluded_values(filter)
        notnull ==
            IF NoValueKey \in DOMAIN filter.excludedValues
               /\ filter.excludedValues[NoValueKey]
            THEN << [k \in 1..Len(d) |-> d[k][filter.column] # None] >>
            ELSE <<>>
    IN  IF excluded_values = {} THEN Returns(notnull)
        ELSE IF filter.columnType = "NUMERICAL"
        THEN IF \E x \in excluded_values : ~float_parses(x)
             THEN Raises("could not convert string to float")
             ELSE LET floats == {float(x) : x \in excluded_values}
                  IN  Returns(notnull \o
                        << [k \in 1..Len(d) |->
                              ~(d[k][filter.column] # None
                                /\ isin(d[k][filter.column][1], floats))] >>)
        ELSE Returns(notnull \o
               << [k \in 1..Len(d) |->
                     ~(d[k][filter.column] # None
                       /\ isin(d[k][filter.column][1], excluded_values))] >>)

date_range_filter(d, filter) ==
    Returns(
        (IF Truthy(filter.minValue)
         THEN << [k \in 1..Len(d) |->
                    TsGe(d[k][filter.column], Timestamp(filter.minValue[1]))] >>
         ELSE <<>>)
        \o
        (IF Truthy(filter.maxValue)
         THEN << [k \in 1..Len(d) |->
                    TsLeCell(d[k][filter.column], Timestamp(filter.maxValue[1]))] >>
         ELSE <<>>))

special_excluded_values(filter) ==
    {k \in DOMAIN filter.excludedValues : filter.excludedValues[k]}

\* df[column].dt.<part> for one timestamp, by the dateFilterType that reads it
dt_part(t, dateFilterType) ==
    CASE dateFilterType = "YEAR" -> dt_year(t)
      [] dateFilterType = "QUARTER_OF_YEAR" -> dt_quarter(t)
      [] dateFilterType = "MONTH_OF_YEAR" -> dt_month(t)
      [] dateFilterType = "WEEK_OF_YEAR" -> dt_week(t)
      [] dateFilterType = "DAY_OF_MONTH" -> dt_day(t)
      [] dateFilterType = "DAY_OF_WEEK" -> dt_dayofweek(t)
      [] dateFilterType = "HOUR_OF_DAY" -> dt_hour(t)

\* [~df[column].dt.<part>.isin([int(k)+1 for k in excluded_values])]
PartPlusOne(d, filter, excluded_values) ==
    IF \E k \in excluded_values : ~int_parses(k)
    THEN Raises("invalid literal for int()")
    ELSE LET ints == {int(k) + 1 : k \in excluded_values}
         IN  Returns(<< [k \in 1..Len(d) |->
                           ~(d[k][filter.column] # None
                             /\ isin(dt_part(d[k][filter.column][1], filter.dateFilterType),
                                     ints))] >>)

\* [~df[column].dt.<part>.isin(excluded_values)]
PartAsIs(d, filter, excluded_values, coerces) ==
    Returns(<< [k \in 1..Len(d) |->
                  ~(d[k][filter.column] # None
                    /\ isin_strings(dt_part(d[k][filter.column][1], filter.dateFilterType),
                                    excluded_values, coerces))] >>)

special_date_filter(d, filter, coerces) ==
    LET excluded_values == special_excluded_values(filter)
        t == filter.dateFilterType
    IN  IF excluded_values = {} THEN Returns(<<>>)
        ELSE IF t = "YEAR" THEN PartAsIs(d, filter, excluded_values, coerces)
        ELSE IF t = "QUARTER_OF_YEAR" THEN PartPlusOne(d, filter, excluded_values)
        ELSE IF t = "MONTH_OF_YEAR" THEN PartPlusOne(d, filter, excluded_values)
        ELSE IF t = "WEEK_OF_YEAR" THEN PartPlusOne(d, filter, excluded_values)
        ELSE IF t = "DAY_OF_MONTH" THEN PartPlusOne(d, filter, excluded_values)
        ELSE IF t = "DAY_OF_WEEK" THEN PartAsIs(d, filter, excluded_values, coerces)
        ELSE IF t = "HOUR_OF_DAY" THEN PartAsIs(d, filter, excluded_values, coerces)
        ELSE Raises("Unknown date filter.")

date_filter(d, filter, coerces) ==
    IF filter.dateFilterType = "RANGE"
    THEN date_range_filter(d, filter)
    ELSE special_date_filter(d, filter, coerces)

-----------------------------------------------------------------------------
(* The conjunction engine *)

\* reduce(lambda c1, c2: c1 & c2, rest, first)
RECURSIVE reduce_and(_, _)
reduce_and(first, rest) ==
    IF rest = <<>> THEN first
    ELSE reduce_and(MaskAnd(first, Head(rest)), Tail(rest))

\* mutant: only the first condition of a filter is applied
apply_filter_conditions_first(d, conditions) ==
    IF Len(conditions) = 0 THEN d
    ELSE BoolIndex(d, conditions[1])

apply_filter_conditions(d, conditions) ==
    IF Len(conditions) = 0 THEN d
    ELSE IF Len(conditions) = 1 THEN BoolIndex(d, conditions[1])
    ELSE BoolIndex(d, reduce_and(conditions[1], Tail(conditions)))

-----------------------------------------------------------------------------
(* Inputs of filter_dataframe *)

A == <<"A">>
B == <<"B">>
C == <<"C">>

\* The rows a table is made of: columns cat (strings), val (numbers), ts (timestamps)
FilterRows ==
    { [cat |-> Some(A), val |-> Some(1),  ts |-> Some([d |-> 4, r |-> 13 * MsPerHour])],
      [cat |-> Some(B), val |-> Some(-1), ts |-> Some([d |-> 0, r |-> 0])],
      [cat |-> None,    val |-> None,     ts |-> None] }

\* reformat_data hands filter_dataframe a table that is not empty
FilterTables == UNION { [1..n -> FilterRows] : n \in 1..MaxRows }

EmptyMap == [k \in {} |-> TRUE]

\* the dict {k: True for k in yes} + {k: False for k in no}
Map(yes, no) == [k \in yes \cup no |-> k \in yes]

Filter(filterType, column, columnType, dateFilterType, minValue, maxValue, excludedValues) ==
    [filterType |-> filterType, column |-> column, columnType |-> columnType,
     dateFilterType |-> dateFilterType, minValue |-> minValue, maxValue |-> maxValue,
     excludedValues |-> excludedValues]

NumericalFilters ==
    { Filter("NUMERICAL_FACET", "val", "NUMERICAL", "", b[1], b[2], EmptyMap) :
        b \in { <<Some(0), None>>, <<Some(1), None>>, <<None, Some(1)>>,
                <<Some(-1), Some(1)>> } }

AlphanumFilters ==
    { Filter("ALPHANUM_FACET", "cat", "ALPHANUM", "", None, None, m) :
        m \in { Map({A}, {}), Map({NoValueKey}, {}), Map({A, NoValueKey}, {}),
                Map({}, {A, NoValueKey}) } }
    \cup
    { Filter("ALPHANUM_FACET", "val", "NUMERICAL", "", None, None, m) :
        m \in { Map({<<"1", ".", "0">>}, {}), Map({<<"x">>}, {}) } }

DateFilters ==
    { Filter("DATE_FACET", "ts", "DATE", "RANGE", b[1], b[2], EmptyMap) :
        b \in { <<Some(MsPerDay), None>>, <<Some(0), Some(MsPerDay)>> } }
    \cup
    { Filter("DATE_FACET", "ts", "DATE", t[1], None, None, Map({t[2]}, {})) :
        t \in { <<"YEAR", <<"1", "9", "7", "0">> >>,
                <<"QUARTER_OF_YEAR", <<"0">> >>,
                <<"MONTH_OF_YEAR", <<"0">> >>,
                <<"WEEK_OF_YEAR", <<"1">> >>,
                <<"DAY_OF_MONTH", <<"4">> >>,
                <<"DAY_OF_WEEK", <<"0">> >>,
                <<"HOUR_OF_DAY", <<"1", "3">> >>,
                <<"MINUTE_OF_HOUR", <<"0">> >> } }
    \cup
    { Filter("DATE_FACET", "ts", "DATE", "MINUTE_OF_HOUR", None, None, m) :
        m \in { EmptyMap, Map({}, {<<"0">>}) } }

OtherFilters ==
    { Filter("BOOLEAN_FACET", "cat", "ALPHANUM", "", None, None, Map({A}, {})) }

FilterUniverse == NumericalFilters \cup AlphanumFilters \cup DateFilters \cup OtherFilters

FilterLists == UNION { [1..n -> FilterUniverse] : n \in 0..MaxFilters }

-----------------------------------------------------------------------------
(* filter_dataframe *)

NoExc == [message |-> "", column |-> "", cause |-> ""]

\* Exception("Error with filter on column {} - {}".format(filter["column"], e))
FilterError(filter, e) ==
    [message |-> "Error with filter on column", column |-> filter.column, cause |-> e]

EmptyError == [message |-> "Dataframe is empty after filtering", column |-> "", cause |-> ""]

\* one iteration of the loop body, given what the evaluator did
LoopBody(filter, result) ==
    IF result.raised # ""
    THEN /\ pc' = "raised"
         /\ exc' = FilterError(filter, result.raised)
         /\ UNCHANGED <<df, idx>>
    ELSE /\ df' = apply_filter_conditions(df, result.conditions)
         /\ idx' = idx + 1
         /\ UNCHANGED <<pc, exc>>

NumericalFacet ==
    /\ pc = "loop" /\ idx < Len(filters)
    /\ filters[idx + 1].filterType = "NUMERICAL_FACET"
    /\ LoopBody(filters[idx + 1], numerical_filter(df, filters[idx + 1]))
    /\ UNCHANGED <<table, filters, isinCoerces>>
    /\ UNCHANGED candleVars

AlphanumFacet ==
    /\ pc = "loop" /\ idx < Len(filters)
    /\ filters[idx + 1].filterType = "ALPHANUM_FACET"
    /\ LoopBody(filters[idx + 1], alphanum_filter(df, filters[idx + 1]))
    /\ UNCHANGED <<table, filters, isinCoerces>>
    /\ UNCHANGED candleVars

DateFacet ==
    /\ pc = "loop" /\ idx < Len(filters)
    /\ filters[idx + 1].filterType = "DATE_FACET"
    /\ LoopBody(filters[idx + 1], date_filter(df, filters[idx + 1], isinCoerces))
    /\ UNCHANGED <<table, filters, isinCoerces>>
    /\ UNCHANGED candleVars

\* a filterType none of the three branches matches: the loop goes on
OtherFacet ==
    /\ pc = "loop" /\ idx < Len(filters)
    /\ filters[idx + 1].filterType
         \notin {"NUMERICAL_FACET", "ALPHANUM_FACET", "DATE_FACET"}
    /\ idx' = idx + 1
    /\ UNCHANGED <<table, filters, df, pc, exc, isinCoerces>>
    /\ UNCHANGED candleVars

\* mutant: the table is returned without the test for emptiness
FilterReturn_unchecked ==
    /\ pc = "loop" /\ idx = Len(filters)
    /\ pc' = "returned" /\ exc' = exc
    /\ UNCHANGED <<table, filters, df, idx, isinCoerces>>
    /\ UNCHANGED <<cdf, max_displayed_values, group_others, work, cpc, run, rerunMode, out1>>

\* after the loop: if df.empty: raise ...; return df
FilterReturn ==
    /\ pc = "loop" /\ idx = Len(filters)
    /\ IF df = <<>>
       THEN pc' = "raised" /\ exc' = EmptyError
       ELSE pc' = "returned" /\ exc' = exc
    /\ UNCHANGED <<table, filters, df, idx, isinCoerces>>
    /\ UNCHANGED candleVars

CandleIdle ==
    /\ cdf = <<>> /\ max_displayed_values = 1 /\ group_others = FALSE
    /\ work = <<>> /\ cpc = "idle" /\ run = 0 /\ rerunMode = "" /\ out1 = <<>>

InitFilter ==
    /\ table \in FilterTables
    /\ filters \in FilterLists
    /\ isinCoerces \in BOOLEAN
    /\ df = table
    /\ idx = 0
    /\ pc = "loop"
    /\ exc = NoExc
    /\ CandleIdle

NextFilter ==
    \/ NumericalFacet
    \/ AlphanumFacet
    \/ DateFacet
    \/ OtherFacet
    \/ FilterReturn

SpecFilter == InitFilter /\ [][NextFilter]_vars

-----------------------------------------------------------------------------
(* Strings: order *)

\* ord(c) of the characters the labels are written with
Ord(c) ==
    CASE c = "A" -> 65 [] c = "B" -> 66 [] c = "C" -> 67 [] c = "e" -> 101
      [] c = "h" -> 104 [] c = "o" -> 111 [] c = "r" -> 114 [] c = "s" -> 115
      [] c = "t" -> 116

\* s < t on Python strings
RECURSIVE StrLess(_, _)
StrLess(s, t) ==
    IF t = <<>> THEN FALSE
    ELSE IF s = <<>> THEN TRUE
    ELSE IF Head(s) = Head(t) THEN StrLess(Tail(s), Tail(t))
    ELSE Ord(Head(s)) < Ord(Head(t))

\* min of a non-empty set of strings
MinLabel(S) == CHOOSE x \in S : \A y \in S : x = y \/ StrLess(x, y)

\* the strings of S in ascending order
RECURSIVE SortedLabels(_)
SortedLabels(S) ==
    IF S = {} THEN <<>>
    ELSE <<MinLabel(S)>> \o SortedLabels(S \ {MinLabel(S)})

-----------------------------------------------------------------------------
(* pandas: aggregation and sorting *)

RECURSIVE SumOver(_, _)
\* sum of f[k] over the finite set K of indices
SumOver(f, K) ==
    IF K = {} THEN 0
    ELSE LET k == CHOOSE x \in K : TRUE IN f[k] + SumOver(f, K \ {k})

\* the keys of groupby([category_column]): rows with a missing key are dropped
GroupKeys(d) == { d[k].cat[1] : k \in {j \in 1..Len(d) : d[j].cat # None} }

\* the rows of one group whose value is not missing
GroupValued(d, c) == {k \in 1..Len(d) : d[k].cat = Some(c) /\ d[k].val # None}

\* agg 'sum': missing values are skipped
GroupSum(d, c) == SumOver([k \in 1..Len(d) |-> IF d[k].val = None THEN 0 ELSE d[k].val[1]],
                          GroupValued(d, c))

\* agg 'count': the number of values that are not missing
GroupCount(d, c) == Cardinality(GroupValued(d, c))

\* df.groupby([category_column], as_index=False).agg({value_column: ['sum', 'count']})
\* one row per key, in ascending order of the keys
groupby_agg(d) ==
    LET keys == SortedLabels(GroupKeys(d))
    IN  [k \in 1..Len(keys) |->
            [cat |-> keys[k], sum |-> GroupSum(d, keys[k]), count |-> GroupCount(d, keys[k])]]

Bijections(n) == {f \in [1..n -> 1..n] : \A a, b \in 1..n : f[a] = f[b] => a = b}

\* the orders sort_values(by=[col], ascending=False) can leave the rows in: the
\* default sort is not stable, so rows with equal keys come in any order
SortedDescending(d, col) ==
    { [k \in 1..Len(d) |-> d[f[k]]] : f \in
        {g \in Bijections(Len(d)) :
            \A a \in 1..Len(d) - 1 : d[g[a]][col] >= d[g[a + 1]][col]} }

\* Series.cumsum(): a missing value stays missing and adds nothing
RECURSIVE CumSum(_)
CumSum(col) ==
    IF col = <<>> THEN <<>>
    ELSE LET before == CumSum(SubSeq(col, 1, Len(col) - 1))
             last == col[Len(col)]
             prior == {k \in 1..Len(col) - 1 : col[k] # None}
             total == SumOver([k \in 1..Len(col) |-> IF col[k] = None THEN 0 ELSE col[k][1]],
                              prior)
         IN  before \o << IF last = None THEN None ELSE Some(total + last[1]) >>

-----------------------------------------------------------------------------
(* create_candlestick_df *)

others == <<"o", "t", "h", "e", "r", "s">>

\* mutant: the cutoff rank is one too high
Rank_offbyone(i, max) == IF i < max THEN i ELSE max

\* df['rank'] after line 130, for the row at 0-based position i
Rank(i, max) == IF i < max - 1 THEN i ELSE max - 1

\* lines 132-133: relabel the rows of the last rank, then
\* groupby(['rank']).agg({category_column: 'min', value_column+'_sum': 'sum'})
GroupOthers(sorted, max) ==
    LET label(k) == IF Rank(k - 1, max) < max - 1 THEN sorted[k].cat ELSE others
        ranks == {Rank(k - 1, max) : k \in 1..Len(sorted)}
        members(r) == {k \in 1..Len(sorted) : Rank(k - 1, max) = r}
    IN  [j \in 1..Cardinality(ranks) |->
            [cat |-> MinLabel({label(k) : k \in members(j - 1)}),
             val |-> SumOver([k \in 1..Len(sorted) |-> sorted[k].sum], members(j - 1))]]

\* df.head(max)
head(d, n) == SubSeq(d, 1, IF n < Len(d) THEN n ELSE Len(d))

\* mutant: the count is kept in place of the sum
KeepTwoColumns_count(d) == [k \in 1..Len(d) |-> [cat |-> d[k].cat, val |-> d[k].count]]

\* lines 137-138: keep the category and the sum, the sum renamed to the value column
KeepTwoColumns(d) == [k \in 1..Len(d) |-> [cat |-> d[k].cat, val |-> d[k].sum]]

\* mutant: the rows are truncated in the order of the keys, not of the counts
Collapse_unsorted(agg, sorted, max, group) ==
    IF Len(agg) > max
    THEN IF group THEN GroupOthers(agg, max)
         ELSE KeepTwoColumns(head(agg, max))
    ELSE KeepTwoColumns(agg)

\* lines 124-138 for one outcome of the sort by count
Collapse(agg, sorted, max, group) ==
    IF Len(agg) > max
    THEN IF group THEN GroupOthers(sorted, max)
         ELSE KeepTwoColumns(head(sorted, max))
    ELSE KeepTwoColumns(agg)

\* mutant: the first value is not set to 0 after the shift
Cumulate_nozero(sorted) ==
    LET n == Len(sorted)
        maxcol == [k \in 1..n |-> Some(sorted[k].val)]
        shifted == [k \in 1..n |-> IF k = 1 THEN None ELSE Some(sorted[k - 1].val)]
        starts == CumSum(shifted)
        ends == CumSum(maxcol)
    IN  [k \in 1..n |-> [cat |-> Some(sorted[k].cat), start |-> starts[k], end |-> ends[k]]]

\* lines 143-146 on the rows sorted by value: max is the value, the value is
\* shifted down by one row, df.loc[0, value] = 0 sets the first value (and, on
\* a table without rows, adds the row labelled 0 with its other cells missing),
\* and both columns are replaced by their cumulative sums
Cumulate(sorted) ==
    LET n == Len(sorted)
        m == IF n = 0 THEN 1 ELSE n
        cat == [k \in 1..m |-> IF n = 0 THEN None ELSE Some(sorted[k].cat)]
        maxcol == [k \in 1..m |-> IF n = 0 THEN None ELSE Some(sorted[k].val)]
        shifted == [k \in 1..m |-> IF k = 1 THEN Some(0) ELSE Some(sorted[k - 1].val)]
        starts == CumSum(shifted)
        ends == CumSum(maxcol)
    IN  [k \in 1..m |-> [cat |-> cat[k], start |-> starts[k], end |-> ends[k]]]

FilterIdle ==
    /\ table = <<>> /\ filters = <<>> /\ df = <<>> /\ idx = 0
    /\ pc = "idle" /\ exc = NoExc /\ isinCoerces = FALSE

\* line 119-120
GroupBy ==
    /\ cpc = "start"
    /\ work' = groupby_agg(work)
    /\ cpc' = "grouped"
    /\ UNCHANGED <<cdf, max_displayed_values, group_others, run, rerunMode, out1>>
    /\ UNCHANGED filterVars

\* lines 124-138
RankCollapse ==
    /\ cpc = "grouped"
    /\ \E sorted \in SortedDescending(work, "count") :
          work' = Collapse(work, sorted, max_displayed_values, group_others)
    /\ cpc' = "collapsed"
    /\ UNCHANGED <<cdf, max_displayed_values, group_others, run, rerunMode, out1>>
    /\ UNCHANGED filterVars

\* lines 140-148
Reshape ==
    /\ cpc = "collapsed"
    /\ \E sorted \in SortedDescending(work, "val") : work' = Cumulate(sorted)
    /\ cpc' = "done"
    /\ out1' = IF run = 1 THEN work' ELSE out1
    /\ UNCHANGED <<cdf, max_displayed_values, group_others, run, rerunMode>>
    /\ UNCHANGED filterVars

\* the number of distinct categories of a table
NumCategories(d) == Cardinality(GroupKeys(d))

\* the values of max_displayed_values >= n the second run is given
RerunMax(n) == IF n = 0 THEN {1, 2} ELSE {n, n + 1}

\* a caller runs create_candlestick_df again on the rows the first run returned,
\* restricted to the category column and the value column, with a
\* max_displayed_values that is at least the first table's number of categories
RerunOnOutput ==
    /\ cpc = "done" /\ run = 1
    /\ cdf' = [k \in 1..Len(work) |-> [cat |-> work[k].cat, val |-> work[k].start]]
    /\ work' = cdf'
    /\ max_displayed_values' \in RerunMax(NumCategories(cdf))
    /\ cpc' = "start" /\ run' = 2 /\ rerunMode' = "output"
    /\ UNCHANGED <<group_others, out1>>
    /\ UNCHANGED filterVars

\* end - start of an output row: missing when either is
Width(row) ==
    IF row.start = None \/ row.end = None THEN None ELSE Some(row.end[1] - row.start[1])

\* the same, the value of each row being the width of its range
RerunOnWidths ==
    /\ cpc = "done" /\ run = 1
    /\ cdf' = [k \in 1..Len(work) |-> [cat |-> work[k].cat, val |-> Width(work[k])]]
    /\ work' = cdf'
    /\ max_displayed_values' \in RerunMax(NumCategories(cdf))
    /\ cpc' = "start" /\ run' = 2 /\ rerunMode' = "widths"
    /\ UNCHANGED <<group_others, out1>>
    /\ UNCHANGED filterVars

Labels == {A, B, C, others}

CandleRows == { [cat |-> c, val |-> v] :
                  c \in {None} \cup {Some(l) : l \in Labels},
                  v \in {None, Some(1), Some(3)} }

\* reformat_data hands create_candlestick_df a table that is not empty
CandleTables == UNION { [1..n -> CandleRows] : n \in 1..MaxCandleRows }

InitCandle ==
    /\ cdf \in CandleTables
    /\ max_displayed_values \in 1..MaxDisplayed
    /\ group_others \in BOOLEAN
    /\ work = cdf
    /\ cpc = "start"
    /\ run = 1
    /\ rerunMode = ""
    /\ out1 = <<>>
    /\ FilterIdle

NextCandle ==
    \/ GroupBy
    \/ RankCollapse
    \/ Reshape
    \/ RerunOnOutput
    \/ RerunOnWidths

SpecCandle == InitCandle /\ [][NextCandle]_vars

-----------------------------------------------------------------------------
(* Properties of the filter pipeline *)

Recognized(filter) ==
    filter.filterType \in {"NUMERICAL_FACET", "ALPHANUM_FACET", "DATE_FACET"}

\* the conditions the evaluator of a recognized filter emits for one row alone
RowConditions(row, filter, coerces) ==
    IF filter.filterType = "NUMERICAL_FACET" THEN numerical_filter(<<row>>, filter).conditions
    ELSE IF filter.filterType = "ALPHANUM_FACET" THEN alphanum_filter(<<row>>, filter).conditions
    ELSE date_filter(<<row>>, filter, coerces).conditions

\* the row satisfies every condition of the filter
RowSatisfies(row, filter, coerces) ==
    LET conditions == RowConditions(row, filter, coerces)
    IN  \A c \in 1..Len(conditions) : conditions[c][1]

\* the row satisfies every condition of every recognized filter of the list
RowSatisfiesAll(row) ==
    \A k \in 1..Len(filters) :
        Recognized(filters[k]) => RowSatisfies(row, filters[k], isinCoerces)

Survivors == SelectSeq(table, LAMBDA row : RowSatisfiesAll(row))

FilterRaised == pc = "raised" /\ exc.message = "Error with filter on column"

\* C2: when filter_dataframe returns, the returned table is exactly the rows of
\* the input table that satisfy every condition of every filter of a recognized
\* type, in their original order; a filter of an unrecognized type is never the
\* filter an error is raised for.
C2_ReturnsExactlyTheSatisfyingRows ==
    /\ pc = "returned" => df = Survivors
    /\ FilterRaised => Recognized(filters[idx + 1])

\* C2 witness: a returned table that lost a row to one of two filters, the list
\* holding a filter of an unrecognized type
C2_Witness ==
    /\ pc = "returned"
    /\ Len(filters) = 2
    /\ Len(df) < Len(table)
    /\ \E k \in 1..2 : ~Recognized(filters[k])

OnlyMin(filter) ==
    /\ filter.filterType = "NUMERICAL_FACET"
    /\ filter.minValue # None
    /\ filter.maxValue = None

RECURSIVE IsSubSeq(_, _)
IsSubSeq(s, t) ==
    IF s = <<>> THEN TRUE
    ELSE IF t = <<>> THEN FALSE
    ELSE IF Head(s) = Head(t) THEN IsSubSeq(Tail(s), Tail(t))
    ELSE IsSubSeq(s, Tail(t))

\* C3, as claimed: once a numeric-range filter with only min set (any number)
\* has been applied, the table holds only rows whose column value is >= min,
\* and its rows are rows of the unfiltered table.
C3_OnlyMinKeepsOnlyRowsAtLeastMin ==
    \A k \in 1..idx :
        OnlyMin(filters[k]) =>
            /\ \A r \in 1..Len(df) : Ge(df[r][filters[k].column], filters[k].minValue[1])
            /\ IsSubSeq(df, table)

\* the value of the cell is the value the key names
KeyNames(k, cell, filter) ==
    IF filter.columnType = "NUMERICAL"
    THEN float_parses(k) /\ float(k) = cell[1]
    ELSE k = cell[1]

\* the rows a categorical-exclusion filter is claimed to remove
ClaimedExcluded(row, filter) ==
    LET m == filter.excludedValues
        cell == row[filter.column]
    IN  IF cell = None
        THEN NoValueKey \in DOMAIN m /\ m[NoValueKey]
        ELSE \E k \in DOMAIN m \ {NoValueKey} : m[k] /\ KeyNames(k, cell, filter)

\* C4: after a categorical-exclusion filter has been applied to a table, the
\* table holds exactly the rows whose value is not a key with a true flag, the
\* rows with a missing value being removed if and only if the sentinel key is
\* present with a true flag.
C4_AlphanumExclusion ==
    (idx = 1 /\ filters[1].filterType = "ALPHANUM_FACET") =>
        df = SelectSeq(table, LAMBDA row : ~ClaimedExcluded(row, filters[1]))

\* C4 witness: a filter with the sentinel and a value excluded has removed a row
\* with a missing value and kept another row
C4_Witness ==
    /\ idx = 1 /\ filters[1].filterType = "ALPHANUM_FACET"
    /\ NoValueKey \in DOMAIN filters[1].excludedValues
    /\ filters[1].excludedValues[NoValueKey]
    /\ \E r \in 1..Len(table) : table[r][filters[1].column] = None
    /\ Len(df) >= 1

UnknownDate(filter) ==
    /\ filter.filterType = "DATE_FACET"
    /\ filter.dateFilterType \notin
         {"RANGE", "YEAR", "QUARTER_OF_YEAR", "MONTH_OF_YEAR", "WEEK_OF_YEAR",
          "DAY_OF_MONTH", "DAY_OF_WEEK", "HOUR_OF_DAY"}

\* C5, as claimed: the loop never gets past a temporal filter of an unknown
\* dateFilterType, whatever its excludedValues: reaching it ends in the
\* 'Unknown date filter.' error tagged with its column.
C5_UnknownDateFilterAlwaysFails ==
    /\ \A k \in 1..idx : ~UnknownDate(filters[k])
    /\ (pc # "loop" /\ idx < Len(filters) /\ UnknownDate(filters[idx + 1]))
          => exc = FilterError(filters[idx + 1], "Unknown date filter.")

-----------------------------------------------------------------------------
(* Properties of create_candlestick_df *)

\* the sequences s and t hold the same elements, each as many times
IsPermutation(s, t) ==
    /\ Len(s) = Len(t)
    /\ \E f \in Bijections(Len(s)) : \A k \in 1..Len(s) : s[k] = t[f[k]]

\* the (category, width) pairs of output rows
Pairs(rows) == [k \in 1..Len(rows) |-> <<rows[k].cat, Width(rows[k])>>]

\* the (rangeStart, rangeEnd) pairs of output rows
Ranges(rows) == [k \in 1..Len(rows) |-> <<rows[k].start, rows[k].end>>]

\* rangeStart[0] = 0 and rangeStart[i] = rangeEnd[i-1] for i > 0
Contiguous(rows) ==
    /\ rows[1].start = Some(0)
    /\ \A k \in 2..Len(rows) : rows[k].start = rows[k - 1].end

\* C1: the cumulative reshaping of a non-empty aggregated table yields rows with
\* rangeStart[0] = 0 and rangeStart[i] = rangeEnd[i-1], whose widths
\* rangeEnd[i] - rangeStart[i] are the aggregated value sums of their
\* categories, in descending order of that sum.
C1_CumulativeLaw ==
    [][ (cpc = "collapsed" /\ cpc' = "done" /\ work # <<>>) =>
          /\ Contiguous(work')
          /\ IsPermutation(Pairs(work'),
                           [k \in 1..Len(work) |-> <<Some(work[k].cat), Some(work[k].val)>>])
          /\ \A k \in 2..Len(work') : Width(work'[k - 1])[1] >= Width(work'[k])[1]
      ]_vars

\* C1 witness: three rows have been reshaped, two of them of equal width
C1_Witness ==
    /\ cpc = "done" /\ run = 1 /\ Len(work) = 3
    /\ Width(work[1]) # Width(work[2])
    /\ Width(work[2]) = Width(work[3])
    /\ work[3].end = Some(5)

\* the number of rows of a category, missing values included
RowCount(d, c) == Cardinality({k \in 1..Len(d) : d[k].cat = Some(c)})

FirstRunDone == cpc = "done" /\ run = 1

\* the output rows are the categories of S, each with its own label and value
\* sum, and the rows of extra
OutputIs(S, extra) ==
    IsPermutation(Pairs(work),
                  LET keys == SortedLabels(S)
                  IN  [k \in 1..Len(keys) |-> <<Some(keys[k]), Some(GroupSum(cdf, keys[k]))>>]
                      \o extra)

\* no two categories have equally many values: the sort by count has one outcome
NoCountTies(d) ==
    \A c, o \in GroupKeys(d) : GroupCount(d, c) = GroupCount(d, o) => c = o

\* C7, as claimed: with n > max_displayed_values and group_others false, the
\* output is exactly max_displayed_values rows, the categories with the highest
\* row counts, each with its own label and value sum.  (Stated for the tables
\* on which the sort by count has a single outcome.)
C7_TruncationKeepsHighestRowCounts ==
    (FirstRunDone /\ NumCategories(cdf) > max_displayed_values /\ ~group_others
      /\ NoCountTies(cdf)) =>
        /\ Len(work) = max_displayed_values
        /\ \E S \in SUBSET GroupKeys(cdf) :
              /\ Cardinality(S) = max_displayed_values
              /\ \A c \in S : \A o \in GroupKeys(cdf) \ S :
                    RowCount(cdf, c) >= RowCount(cdf, o)
              /\ OutputIs(S, <<>>)

\* C7, amended: with n > max_displayed_values and group_others false, the
\* output is exactly max_displayed_values rows, the categories with the highest
\* counts of rows whose value is not missing, each with its own label and value
\* sum; the other categories contribute to no range.
C7_TruncationKeepsHighestValueCounts ==
    (FirstRunDone /\ NumCategories(cdf) > max_displayed_values /\ ~group_others) =>
        /\ Len(work) = max_displayed_values
        /\ Contiguous(work)
        /\ \E S \in SUBSET GroupKeys(cdf) :
              /\ Cardinality(S) = max_displayed_values
              /\ \A c \in S : \A o \in GroupKeys(cdf) \ S :
                    GroupCount(cdf, c) >= GroupCount(cdf, o)
              /\ OutputIs(S, <<>>)

\* C7 witness: a category with the higher count and the lower sum has been kept,
\* and the one with the higher sum dropped
C7_Witness ==
    /\ FirstRunDone /\ ~group_others /\ max_displayed_values = 1
    /\ \E c, o \in GroupKeys(cdf) :
          /\ GroupCount(cdf, c) > GroupCount(cdf, o)
          /\ GroupSum(cdf, c) < GroupSum(cdf, o)
          /\ work = <<[cat |-> Some(c), start |-> Some(0), end |-> Some(GroupSum(cdf, c))]>>

\* C8, as claimed: with n <= max_displayed_values the output is exactly n rows,
\* one per distinct category with its own label, each as wide as its value sum.
C8_NoCollapseIsNoOp ==
    (FirstRunDone /\ NumCategories(cdf) <= max_displayed_values) =>
        /\ Len(work) = NumCategories(cdf)
        /\ OutputIs(GroupKeys(cdf), <<>>)

\* C9, as claimed: the second run, on the first run's output restricted to the
\* category column and the value column, returns the rows the first run returned.
C9_RerunOnOutputReproducesRows ==
    (cpc = "done" /\ run = 2 /\ rerunMode = "output") => work = out1

DistinctLabels(rows) ==
    \A a, b \in 1..Len(rows) : rows[a].cat = rows[b].cat => a = b

\* C9, amended: when the labels of the first run's output rows are pairwise
\* distinct, a second run on that output with the value of each row replaced by
\* the width of its range, max_displayed_values >= n and no filters returns the
\* same sequence of (rangeStart, rangeEnd) ranges and the same (category, width)
\* pairs as the first run.
C9_RerunOnWidthsReproducesRanges ==
    (cpc = "done" /\ run = 2 /\ rerunMode = "widths" /\ DistinctLabels(out1)) =>
        /\ Ranges(work) = Ranges(out1)
        /\ IsPermutation(Pairs(work), Pairs(out1))

\* C9 witness: the second run has reproduced three ranges
C9_Witness ==
    /\ cpc = "done" /\ run = 2 /\ rerunMode = "widths" /\ DistinctLabels(out1)
    /\ Len(out1) = 3 /\ Len(work) = 3
    /\ out1[3].end = Some(5)

\* the sum of the value column over the rows of d that R holds
ValueTotal(d, R) ==
    SumOver([k \in 1..Len(d) |-> IF d[k].val = None THEN 0 ELSE d[k].val[1]],
            {k \in R : d[k].val # None})

\* C10, as claimed: with n > max_displayed_values and group_others true, the
\* output is exactly max_displayed_values rows: the max_displayed_values - 1
\* categories with the highest row counts with their own label and sum, and one
\* row 'others' with the sum of the other categories; the last rangeEnd is the
\* sum of the value column over all input rows.
C10_OthersCarriesTheRest ==
    (FirstRunDone /\ NumCategories(cdf) > max_displayed_values /\ group_others) =>
        /\ Len(work) = max_displayed_values
        /\ \E S \in SUBSET GroupKeys(cdf) :
              /\ Cardinality(S) = max_displayed_values - 1
              /\ \A c \in S : \A o \in GroupKeys(cdf) \ S :
                    RowCount(cdf, c) >= RowCount(cdf, o)
              /\ OutputIs(S, << <<Some(others),
                                  Some(SumOver([c \in GroupKeys(cdf) |-> GroupSum(cdf, c)],
                                               GroupKeys(cdf) \ S))>> >>)
        /\ work[Len(work)].end = Some(ValueTotal(cdf, 1..Len(cdf)))

\* C10, amended: with n > max_displayed_values and group_others true, the
\* output is exactly max_displayed_values rows: the max_displayed_values - 1
\* categories with the highest counts of rows whose value is not missing, with
\* their own label and sum, and one row 'others' with the sum of the other
\* categories; the last rangeEnd is the sum of the value column over the input
\* rows whose category is not missing.
C10_OthersCarriesTheRestOfTheCategorised ==
    (FirstRunDone /\ NumCategories(cdf) > max_displayed_values /\ group_others) =>
        /\ Len(work) = max_displayed_values
        /\ \E S \in SUBSET GroupKeys(cdf) :
              /\ Cardinality(S) = max_displayed_values - 1
              /\ \A c \in S : \A o \in GroupKeys(cdf) \ S :
                    GroupCount(cdf, c) >= GroupCount(cdf, o)
              /\ OutputIs(S, << <<Some(others),
                                  Some(SumOver([c \in GroupKeys(cdf) |-> GroupSum(cdf, c)],
                                               GroupKeys(cdf) \ S))>> >>)
        /\ work[Len(work)].end =
              Some(ValueTotal(cdf, {k \in 1..Len(cdf) : cdf[k].cat # None}))

\* C10 witness: of three categories one kept its label and its sum, and the two
\* others, each with a value, were merged into the row 'others'
C10_Witness ==
    /\ FirstRunDone /\ group_others /\ max_displayed_values = 2
    /\ NumCategories(cdf) = 3 /\ others \notin GroupKeys(cdf)
    /\ \A c \in GroupKeys(cdf) : GroupCount(cdf, c) = 1
    /\ \E k \in 1..2 : work[k].cat = Some(others) /\ Width(work[k]) = Some(4)
    /\ \E k \in 1..2 : work[k].cat # Some(others) /\ Width(work[k]) = Some(1)

====
